---------------------------- MODULE Spec2Model ----------------------------
(***************************************************************************)
(* MovieHub (src/script.js): the MovieApp class as a state machine.        *)
(*                                                                         *)
(* The browser runs one handler at a time, so every action below is one    *)
(* whole handler or one whole continuation of the async loadMovies: the    *)
(* synchronous part up to `await fetch`, and the part after the awaits.    *)
(* Nothing of the shared state changes between `await fetch` and           *)
(* `await response.json()`, so the two awaits are one completion step.     *)
(*                                                                         *)
(* Strings are sequences of one-character strings, so that toLowerCase,    *)
(* trim and includes are computed character by character.                  *)
(*                                                                         *)
(* A listener fires when its element can receive the event, as far as the  *)
(* source decides it: the cards are children of moviesContainer and the    *)
(* backdrop is movieModal itself, both shown and hidden by this code, so   *)
(* their listeners are guarded by that display; the listeners of retryBtn  *)
(* and of the close control have no guard in the source and get none.      *)
(*                                                                         *)
(* Input domain: a payload that parses is either an array of item records  *)
(* with a string title and a unique id (spec section 3) or a JSON value    *)
(* that is not iterable (an object, a number, null).                       *)
(***************************************************************************)
EXTENDS Naturals, Sequences, FiniteSets

(***************************************************************************)
(* Bounds of the model.                                                    *)
(***************************************************************************)
\* the longest collection movies.json delivers
MaxMovies == 2
\* how many load attempts are started (the first one by the constructor)
MaxLoads == 2
\* how many input events the search field receives
MaxSearches == 2
\* how many focus timers of openModal may be pending at once
MaxFocusTimers == 1

(***************************************************************************)
(* Data: items, collections, payloads, queries.                            *)
(***************************************************************************)
\* An item of movies.json.  A JSON number is held in tenths: the rating 85
\* is 8.5, the rating 90 is 9.0 (which JSON.parse reads as the number 9).
Item(id, title, rating) ==
    [id |-> id, title |-> title, year |-> 2000 + id, rating |-> rating,
     genre |-> <<"g">>, description |-> <<"d", " ", "d">>, poster |-> <<"u">>]

Library ==
    << Item(1, <<"A", "b">>, 85),
       Item(2, <<"b", "a">>, 90),
       Item(3, <<"a", " ", "B">>, 73),
       Item(4, <<"B">>, 80) >>

Collections == { SubSeq(Library, 1, n) : n \in 0..MaxMovies }

\* what response.json() resolves to: an array of items, or a value that is
\* not iterable (kind "object")
ArrayPayload(items) == [kind |-> "array", items |-> items]

ObjectPayload == [kind |-> "object", items |-> << >>]

Payloads == { ArrayPayload(c) : c \in Collections } \cup { ObjectPayload }

\* the ways a load fails before any data is assigned
FailureReasons == { "fetchRejected", "httpStatus", "jsonParse" }

\* what the user types into the search field: a blank query (its term is
\* empty after trim, as for an emptied field), one that matches by case
\* folding and trimming, and one that matches nothing
Queries ==
    { <<" ">>, <<" ", "A", "B">>, <<"z", " ">> }

Keys == { "Escape", "Enter" }

ViewRegions == { "loadingState", "errorState", "noResultsState", "moviesContainer" }

VARIABLES
    movies,            \* this.movies: the payload last assigned
    filteredMovies,    \* this.filteredMovies
    isLoading,         \* this.isLoading
    searchTimeout,     \* this.searchTimeout: 0 for null, else a timer id
    timers,            \* pending setTimeout callbacks of handleSearch: [id, query]
    timerIds,          \* how many timer ids handleSearch has been given
    display,           \* style.display of the four view regions and of movieModal
    cards,             \* the children of moviesContainer, in order
    bodyOverflow,      \* document.body.style.overflow
    modalItem,         \* the item whose fields the modal shows; id 0 for none
    modalFields,       \* the src / textContent of the modal's elements
    focusTimers,       \* pending focus callbacks of openModal
    activeElement,     \* document.activeElement: "closeModal" or "other"
    pending,           \* load attempts in flight (attempt numbers)
    attempts,          \* load attempts started so far
    \* history, for stating the properties
    lastOp,            \* the method of MovieApp that ran last
    loadedData,        \* the payload the last resolved load delivered
    newestDone,        \* the highest attempt number that has completed
    scheduledQuery,    \* the argument of the last handleSearch call
    executedQuery,     \* the argument of the last searchMovies call
    executions,        \* how many timer callbacks of handleSearch have run
    superseded,        \* handleSearch calls followed by another while pending
    overflowBeforeOpen, \* bodyOverflow as the last openModal found it, while no
                        \* closeModal has followed; "unset" otherwise
    selected           \* the item of the card that was activated last

vars ==
    << movies, filteredMovies, isLoading, searchTimeout, timers, timerIds,
       display, cards, bodyOverflow, modalItem, modalFields, focusTimers,
       activeElement, pending, attempts, lastOp, loadedData, newestDone, scheduledQuery,
       executedQuery, executions, superseded, overflowBeforeOpen, selected >>

dataVars == << movies, filteredMovies >>

searchVars == << searchTimeout, timers, timerIds >>

modalVars ==
    << bodyOverflow, modalItem, modalFields, focusTimers, activeElement >>

modalHistory == << overflowBeforeOpen, selected >>

loadVars == << pending, attempts, loadedData, newestDone >>

searchHistory == << scheduledQuery, executedQuery, executions, superseded >>

NoItem == Item(0, << >>, 0)

\* the text of a number, as the digits before the point and those after it
NumberText(whole, decimals) == [whole |-> whole, decimals |-> decimals]

\* Number::toString of a number held in tenths: "9" for 9.0, "8.5" for 8.5
numberToString(tenths) ==
    NumberText(tenths \div 10,
               IF tenths % 10 = 0 THEN << >> ELSE << tenths % 10 >>)

\* what the modal's elements hold before the first openModal
NoFields ==
    [poster |-> << >>, title |-> << >>, year |-> NumberText(0, << >>),
     rating |-> NumberText(0, << >>), genre |-> << >>, description |-> << >>]

(***************************************************************************)
(* String functions of JavaScript, on sequences of characters.             *)
(***************************************************************************)
LowerChar(c) ==
    CASE c = "A" -> "a"
      [] c = "B" -> "b"
      [] OTHER -> c

toLowerCase(s) == [i \in 1..Len(s) |-> LowerChar(s[i])]

IsSpace(c) == c = " "

RECURSIVE trimStart(_)
trimStart(s) ==
    IF s # << >> /\ IsSpace(Head(s)) THEN trimStart(Tail(s)) ELSE s

RECURSIVE trimEnd(_)
trimEnd(s) ==
    IF s # << >> /\ IsSpace(s[Len(s)])
    THEN trimEnd(SubSeq(s, 1, Len(s) - 1))
    ELSE s

trim(s) == trimEnd(trimStart(s))

\* String.prototype.includes: t occurs in s at some position
includes(s, t) ==
    \E i \in 1..(Len(s) + 1) :
        /\ i + Len(t) - 1 <= Len(s)
        /\ SubSeq(s, i, i + Len(t) - 1) = t

(***************************************************************************)
(* The view regions.                                                       *)
(***************************************************************************)
hideAllStates_KeepsError(d) ==
    [d EXCEPT !.loadingState = "none",
              !.noResultsState = "none",
              !.moviesContainer = "none"]

hideAllStates(d) ==
    [d EXCEPT !.loadingState = "none",
              !.errorState = "none",
              !.noResultsState = "none",
              !.moviesContainer = "none"]

showLoading_KeepsView(d) == d

\* showLoading's effect on the regions (it also sets isLoading)
showLoading(d) == [hideAllStates(d) EXCEPT !.loadingState = "block"]

\* hideLoading's effect on the regions (it also clears isLoading)
hideLoading(d) == [d EXCEPT !.loadingState = "none"]

showError_Hidden(d) == hideAllStates(d)

showError(d) == [hideAllStates(d) EXCEPT !.errorState = "block"]

showNoResults_KeepsError(d) ==
    [d EXCEPT !.loadingState = "none",
              !.moviesContainer = "none",
              !.noResultsState = "block"]

showNoResults(d) == [hideAllStates(d) EXCEPT !.noResultsState = "block"]

\* renderMovies: the regions after rendering the filtered view fm
renderDisplay(d, fm) ==
    IF Len(fm) = 0
    THEN showNoResults(d)
    ELSE [hideAllStates(d) EXCEPT !.moviesContainer = "grid"]

\* renderMovies: the cards of moviesContainer after rendering fm; the early
\* return for an empty view leaves the container's content as it was
renderCards(old, fm) == IF Len(fm) = 0 THEN old ELSE fm

Init ==
    /\ movies = ArrayPayload(<< >>)
    /\ filteredMovies = << >>
    /\ isLoading = TRUE
    /\ searchTimeout = 0
    /\ timers = {}
    /\ timerIds = 0
    /\ display = [loadingState |-> "block", errorState |-> "none",
                  noResultsState |-> "none", moviesContainer |-> "none",
                  movieModal |-> ""]
    /\ cards = << >>
    /\ bodyOverflow = ""
    /\ modalItem = NoItem
    /\ modalFields = NoFields
    /\ focusTimers = 0
    /\ activeElement = "other"
    /\ pending = {1}
    /\ attempts = 1
    /\ lastOp = "construct"
    /\ loadedData = ArrayPayload(<< >>)
    /\ newestDone = 0
    /\ scheduledQuery = << >>
    /\ executedQuery = << >>
    /\ executions = 0
    /\ superseded = 0
    /\ overflowBeforeOpen = "unset"
    /\ selected = NoItem

(***************************************************************************)
(* Loading: loadMovies, lines 88-109.                                      *)
(***************************************************************************)
Max(a, b) == IF a >= b THEN a ELSE b

\* line 100, [...this.movies], for a payload that is an array
spread_KeepsView(payload) == filteredMovies

spread(payload) == payload.items

\* lines 89 and 92: showLoading, then the fetch is issued and the handler
\* yields at the first await
loadMovies ==
    /\ attempts < MaxLoads
    /\ isLoading' = TRUE
    /\ display' = showLoading(display)
    /\ attempts' = attempts + 1
    /\ pending' = pending \cup {attempts + 1}
    /\ UNCHANGED << movies, filteredMovies, cards >>

\* lines 92-96 and 98 failing, then the catch of lines 105-108: fetch
\* rejects, the status is not ok, or response.json() rejects
loadMoviesRejected(a, reason) ==
    /\ pending' = pending \ {a}
    /\ display' = showError(display)
    /\ newestDone' = Max(newestDone, a)
    /\ lastOp' = "loadFailed"
    /\ UNCHANGED << movies, filteredMovies, isLoading, cards, attempts,
                    loadedData >>

\* lines 98-103: the payload parsed. Line 99 assigns it; line 100 throws a
\* TypeError when it is not iterable, and the catch shows the error region
loadMoviesResolved(a, data) ==
    /\ pending' = pending \ {a}
    /\ movies' = data
    /\ loadedData' = data
    /\ newestDone' = Max(newestDone, a)
    /\ IF data.kind = "array"
       THEN /\ filteredMovies' = spread(data)
            /\ isLoading' = FALSE
            /\ display' = renderDisplay(hideLoading(display), spread(data))
            /\ cards' = renderCards(cards, spread(data))
            /\ lastOp' = "loadOk"
       ELSE /\ display' = showError(display)
            /\ lastOp' = "loadNotIterable"
            /\ UNCHANGED << filteredMovies, isLoading, cards >>
    /\ UNCHANGED attempts

\* the retry button's click listener, lines 64-66: it calls loadMovies
\* whatever the state is
RetryClick ==
    /\ loadMovies
    /\ lastOp' = "retry"
    /\ UNCHANGED << searchVars, modalVars, modalHistory, searchHistory,
                    loadedData, newestDone >>

LoadFails ==
    \E a \in pending, reason \in FailureReasons :
        /\ loadMoviesRejected(a, reason)
        /\ UNCHANGED << searchVars, modalVars, modalHistory, searchHistory >>

LoadResolves ==
    \E a \in pending, data \in Payloads :
        /\ loadMoviesResolved(a, data)
        /\ UNCHANGED << searchVars, modalVars, modalHistory, searchHistory >>

(***************************************************************************)
(* Search: handleSearch, lines 114-124, and searchMovies, lines 129-141.   *)
(***************************************************************************)
clearTimeout_Forgotten(ts, id) == ts

clearTimeout(ts, id) == { t \in ts : t.id # id }

handleSearch(query) ==
    /\ timerIds < MaxSearches
    /\ timerIds' = timerIds + 1
    /\ timers' = (IF searchTimeout # 0
                  THEN clearTimeout(timers, searchTimeout)
                  ELSE timers)
                 \cup { [id |-> timerIds + 1, query |-> query] }
    /\ searchTimeout' = timerIds + 1

\* line 130
searchTerm(query) == trim(toLowerCase(query))

\* lines 135-137, Array.prototype.filter with the title test
filterMovies_CaseSensitive(items, term) ==
    SelectSeq(items, LAMBDA movie : includes(movie.title, term))

filterMovies(items, term) ==
    SelectSeq(items, LAMBDA movie : includes(toLowerCase(movie.title), term))

\* lines 132-138, for a collection that is an array
searchResult(items, query) ==
    IF searchTerm(query) = << >>
    THEN items
    ELSE filterMovies(items, searchTerm(query))

searchMovies_NarrowsCollection(query) ==
    IF movies.kind = "array"
    THEN /\ filteredMovies' = searchResult(movies.items, query)
         /\ movies' = ArrayPayload(searchResult(movies.items, query))
         /\ display' = renderDisplay(display, searchResult(movies.items, query))
         /\ cards' = renderCards(cards, searchResult(movies.items, query))
         /\ lastOp' = "searchMovies"
         /\ UNCHANGED isLoading
    ELSE /\ lastOp' = "searchThrows"
         /\ UNCHANGED << movies, filteredMovies, display, cards, isLoading >>

\* When this.movies is not iterable, line 133 or line 135 throws a
\* TypeError that nothing catches: the callback ends and nothing changes
searchMovies(query) ==
    IF movies.kind = "array"
    THEN /\ filteredMovies' = searchResult(movies.items, query)
         /\ display' = renderDisplay(display, searchResult(movies.items, query))
         /\ cards' = renderCards(cards, searchResult(movies.items, query))
         /\ lastOp' = "searchMovies"
         /\ UNCHANGED << movies, isLoading >>
    ELSE /\ lastOp' = "searchThrows"
         /\ UNCHANGED << movies, filteredMovies, display, cards, isLoading >>

\* the input listener, lines 48-50
SearchInput ==
    \E query \in Queries :
        /\ handleSearch(query)
        /\ scheduledQuery' = query
        /\ superseded' = IF \E t \in timers : t.id = searchTimeout
                         THEN superseded + 1
                         ELSE superseded
        /\ lastOp' = "handleSearch"
        /\ activeElement' = "other"
        /\ UNCHANGED << dataVars, isLoading, display, cards, bodyOverflow,
                        modalItem, modalFields, focusTimers,
                        modalHistory, loadVars, executedQuery, executions >>

\* the timer callback of lines 121-123; a fired timer is no longer pending,
\* and this.searchTimeout keeps its id
SearchTimerFires ==
    \E t \in timers :
        /\ timers' = timers \ {t}
        /\ searchMovies(t.query)
        /\ executedQuery' = t.query
        /\ executions' = executions + 1
        /\ UNCHANGED << searchTimeout, timerIds, modalVars, modalHistory,
                        loadVars, scheduledQuery, superseded >>

(***************************************************************************)
(* The modal: openModal, closeModal, isModalOpen, lines 208-241.           *)
(***************************************************************************)
isModalOpen == display.movieModal = "block"

\* lines 210-216: the modal's elements after openModal(movie); year and
\* rating are numbers, which textContent holds as Number::toString gives them
modalContent(movie) ==
    [poster |-> movie.poster,
     title |-> movie.title,
     year |-> numberToString(10 * movie.year),
     rating |-> numberToString(movie.rating),
     genre |-> movie.genre,
     description |-> movie.description]

openModal_TogglesLock(movie) ==
    /\ focusTimers < MaxFocusTimers
    /\ modalItem' = movie
    /\ modalFields' = modalContent(movie)
    /\ display' = [display EXCEPT !.movieModal = "block"]
    /\ bodyOverflow' = IF bodyOverflow = "hidden" THEN "auto" ELSE "hidden"
    /\ focusTimers' = focusTimers + 1

openModal(movie) ==
    /\ focusTimers < MaxFocusTimers
    /\ modalItem' = movie
    /\ modalFields' = modalContent(movie)
    /\ display' = [display EXCEPT !.movieModal = "block"]
    /\ bodyOverflow' = "hidden"
    /\ focusTimers' = focusTimers + 1

closeModal_KeepsLock ==
    /\ display' = [display EXCEPT !.movieModal = "none"]
    /\ activeElement' = "other"
    /\ UNCHANGED << bodyOverflow, modalItem, modalFields, focusTimers >>

closeModal_Toggles ==
    /\ display' = [display EXCEPT !.movieModal =
                      IF isModalOpen THEN "none" ELSE "block"]
    /\ bodyOverflow' = IF isModalOpen THEN "auto" ELSE "hidden"
    /\ activeElement' = "other"
    /\ UNCHANGED << modalItem, modalFields, focusTimers >>

\* lines 231-234; the modal is no longer rendered, so the focus, when it was
\* on the close control, leaves it
closeModal ==
    /\ display' = [display EXCEPT !.movieModal = "none"]
    /\ bodyOverflow' = "auto"
    /\ activeElement' = "other"
    /\ UNCHANGED << modalItem, modalFields, focusTimers >>

appVars ==
    << movies, filteredMovies, isLoading, searchVars, cards, loadVars,
       searchHistory >>

\* the history of the modal's handlers
Opened == lastOp' = "openModal" /\ overflowBeforeOpen' = bodyOverflow

Closed ==
    /\ lastOp' = "closeModal"
    /\ overflowBeforeOpen' = "unset"
    /\ UNCHANGED selected

\* a card's click listener, or its keydown listener with Enter or Space,
\* lines 190-200; the cards are the children of moviesContainer
CardActivate ==
    \E i \in 1..Len(cards) :
        /\ display.moviesContainer = "grid"
        /\ openModal(cards[i])
        /\ Opened
        /\ selected' = cards[i]
        /\ activeElement' = "other"
        /\ UNCHANGED appVars

\* The close control is the overlay's dismiss control (spec section 6: "an
\* overlay with one dismiss control"), a descendant of movieModal in a
\* markup that is not among the sources; it is rendered, and so can take
\* the focus, while movieModal is displayed.
closeControlRendered_Always == TRUE

closeControlRendered == isModalOpen

\* the timer callback of lines 223-225: closeModal.focus() is called
\* whatever the overlay's state is by then, and focus() on an element that
\* is not rendered does nothing; lastOp records the call
FocusTimerFires ==
    /\ focusTimers > 0
    /\ focusTimers' = focusTimers - 1
    /\ activeElement' = IF closeControlRendered THEN "closeModal"
                                                ELSE activeElement
    /\ lastOp' = "focus"
    /\ UNCHANGED << appVars, display, bodyOverflow, modalItem, modalFields,
                    modalHistory >>

\* the close control's click listener, lines 53-55
CloseClick ==
    /\ closeModal
    /\ Closed
    /\ UNCHANGED appVars

\* the modal's click listener, lines 57-61: a click on the backdrop closes,
\* a click that lands on the content does nothing
ModalClick ==
    \E onBackdrop \in BOOLEAN :
        /\ isModalOpen
        /\ IF onBackdrop
           THEN closeModal /\ Closed
           ELSE UNCHANGED << display, modalVars, lastOp, modalHistory >>
        /\ UNCHANGED appVars

\* line 70, the condition of the keydown listener
escapeCloses_Unguarded(key) == key = "Escape"

escapeCloses(key) == key = "Escape" /\ isModalOpen

\* the document's keydown listener, lines 69-73; lastOp records an Escape
\* press, whether it closed the overlay or not
KeyDown ==
    \E key \in Keys :
        /\ IF escapeCloses(key)
           THEN closeModal /\ overflowBeforeOpen' = "unset"
           ELSE UNCHANGED << display, modalVars, overflowBeforeOpen >>
        /\ lastOp' = IF key = "Escape" THEN "escapeKey" ELSE lastOp
        /\ UNCHANGED selected
        /\ UNCHANGED appVars

Next ==
    \/ RetryClick
    \/ LoadFails
    \/ LoadResolves
    \/ SearchInput
    \/ SearchTimerFires
    \/ CardActivate
    \/ FocusTimerFires
    \/ CloseClick
    \/ ModalClick
    \/ KeyDown

Spec == Init /\ [][Next]_vars

(***************************************************************************)
(* The page as the user can drive it.  The markup (index.html) is not      *)
(* among the sources; the spec's section 6 has "a retry control visible    *)
(* only in the Error state", so the control is part of the error region    *)
(* and can be clicked only while that region is shown.                     *)
(***************************************************************************)
retryRendered_Always == TRUE

retryRendered == display.errorState = "block"

RetryControlClick == retryRendered /\ RetryClick

NextUI ==
    \/ RetryControlClick
    \/ LoadFails
    \/ LoadResolves
    \/ SearchInput
    \/ SearchTimerFires
    \/ CardActivate
    \/ FocusTimerFires
    \/ CloseClick
    \/ ModalClick
    \/ KeyDown

SpecUI == Init /\ [][NextUI]_vars

(***************************************************************************)
(* Properties.                                                             *)
(***************************************************************************)
\* the view regions that are shown
ActiveRegions == { r \in ViewRegions : display[r] \in {"block", "grid"} }

\* C1: in every reachable state exactly one of the four view regions
\* (loading, error, no results, movies grid) is visible.
C1_ExactlyOneRegionVisible == Cardinality(ActiveRegions) = 1

\* a retry after a completed load: the loading region has replaced the
\* region the earlier attempt left
C1_Witness ==
    /\ lastOp = "retry"
    /\ newestDone >= 1
    /\ ActiveRegions = {"loadingState"}

\* C2: the result of a load attempt that arrives after a newer attempt has
\* completed changes neither the collection, nor the filtered view, nor
\* the view regions.
C2_StaleResultIgnored ==
    [][ \A a \in pending \ pending' :
            a < newestDone => UNCHANGED << movies, filteredMovies, display, cards >>
      ]_vars

\* C3: at most one search timer is pending, it is the timer of the last
\* handleSearch call and carries that call's query; every call is pending,
\* has run once, or was superseded by a later call while pending and never
\* ran; when nothing is pending the query that ran last is the last call's.
C3_DebounceLastCallWins ==
    /\ Cardinality(timers) <= 1
    /\ \A t \in timers : t.id = searchTimeout /\ t.query = scheduledQuery
    /\ executions + superseded + Cardinality(timers) = timerIds
    /\ (timers = {} /\ timerIds > 0) => executedQuery = scheduledQuery

\* a burst of two calls, the second before the first timer fired: one
\* execution, of the second call
C3_Witness ==
    /\ timerIds = 2
    /\ superseded = 1
    /\ executions = 1
    /\ timers = {}
    /\ lastOp = "searchMovies"

\* C4: right after a load succeeded the collection is the loaded data, the
\* filtered view is the whole collection in source order, and the grid
\* shows one card per item in that order, or the no-results region is shown
\* when the collection is empty.
C4_LoadSuccessResetsView ==
    lastOp = "loadOk" =>
        /\ movies = loadedData
        /\ filteredMovies = loadedData.items
        /\ IF Len(loadedData.items) > 0
           THEN ActiveRegions = {"moviesContainer"} /\ cards = loadedData.items
           ELSE ActiveRegions = {"noResultsState"}

\* a load that succeeds with two items after a search had run
C4_Witness ==
    /\ lastOp = "loadOk"
    /\ executions >= 1
    /\ Len(cards) = 2
    /\ ActiveRegions = {"moviesContainer"}

\* C5: right after a load failed (fetch rejected, status not ok, payload
\* unparsable or not iterable) the error region is the one shown; right
\* after a retry the loading region is the one shown and the new attempt
\* is in flight.
C5_FailureShowsErrorRetryReloads ==
    /\ lastOp \in {"loadFailed", "loadNotIterable"} =>
           ActiveRegions = {"errorState"}
    /\ lastOp = "retry" =>
           /\ ActiveRegions = {"loadingState"}
           /\ isLoading
           /\ attempts \in pending

\* the first attempt failed on a payload that is not iterable, and the
\* retry that followed is in flight
C5_Witness ==
    /\ lastOp = "retry"
    /\ movies = ObjectPayload
    /\ newestDone = 1
    /\ pending = {2}
    /\ ActiveRegions = {"loadingState"}

\* the trimmed, lower-cased query, as the claim words it
NormalizedQuery(q) == toLowerCase(trim(q))

\* t is a contiguous part of s
IsSubstring(t, s) ==
    \E i \in 0..Len(s), j \in 0..Len(s) :
        /\ i <= j
        /\ [k \in 1..(j - i) |-> s[i + k]] = t

\* the position in the collection of the item with this id
PositionOf(item, items) == CHOOSE i \in 1..Len(items) : items[i].id = item.id

Matches(item, q) == IsSubstring(NormalizedQuery(q), toLowerCase(item.title))

C7_SearchAlwaysRenders ==
    lastOp \in {"searchMovies", "searchThrows"} =>
        IF Len(filteredMovies) > 0
        THEN ActiveRegions = {"moviesContainer"} /\ cards = filteredMovies
        ELSE ActiveRegions = {"noResultsState"}

\* C8: background scroll is locked exactly while the overlay is open;
\* opening locks it and every dismissal closes the overlay and unlocks it.
C8_ScrollLockedIffOpen ==
    /\ bodyOverflow = "hidden" <=> isModalOpen
    /\ lastOp = "openModal" => isModalOpen
    /\ lastOp \in {"closeModal", "escapeKey"} => ~isModalOpen

\* the overlay was opened for an item and dismissed
C8_Witness ==
    /\ lastOp = "closeModal"
    /\ modalItem # NoItem
    /\ display.movieModal = "none"
    /\ bodyOverflow = "auto"

\* C9: a close that follows an open gives document.body.style.overflow the
\* value it had before the open.
C9_CloseRestoresScrollSetting ==
    [][ (lastOp = "openModal" /\ lastOp' = "closeModal")
            => bodyOverflow' = overflowBeforeOpen ]_vars

\* C10: closeModal on a closed overlay leaves it closed, and once a close
\* has set the overlay's display and the scroll setting, a further close
\* changes neither.
C10_CloseIsIdempotent ==
    [][ (lastOp' = "closeModal" /\ ~isModalOpen) =>
            /\ display'.movieModal = "none"
            /\ bodyOverflow' # "hidden"
            /\ display.movieModal = "none" =>
                   /\ bodyOverflow' = bodyOverflow
                   /\ display' = display
      ]_vars

\* closeModal has run on an overlay that was never opened
C10_Witness ==
    /\ lastOp = "closeModal"
    /\ modalItem = NoItem
    /\ display.movieModal = "none"

\* C11: an Escape press closes the overlay when it is open; when it is
\* closed the press changes neither the overlay's display, nor the scroll
\* setting, nor the view regions, nor the collection, nor the filtered view.
C11_EscapeOnlyClosesOpenOverlay ==
    [][ lastOp' = "escapeKey" =>
            IF isModalOpen
            THEN display'.movieModal = "none"
            ELSE UNCHANGED << display, bodyOverflow, modalItem, movies,
                              filteredMovies, cards >>
      ]_vars

\* Escape was pressed on an overlay that was never opened, and it still
\* has no display set
C11_Witness ==
    /\ lastOp = "escapeKey"
    /\ display.movieModal = ""
    /\ bodyOverflow = ""

C13_ReopenReplacesItemKeepsLock ==
    /\ [][ (lastOp' = "openModal" /\ isModalOpen) =>
               /\ modalItem' = selected'
               /\ modalFields'.title = selected'.title
               /\ isModalOpen'
               /\ bodyOverflow = "hidden"
               /\ bodyOverflow' = "hidden" ]_vars
    /\ [][ (lastOp' \in {"closeModal", "escapeKey"}
              /\ isModalOpen /\ overflowBeforeOpen = "hidden") =>
               /\ ~isModalOpen'
               /\ bodyOverflow' = "auto" ]_vars

\* a card was activated while the overlay was open
C13_Witness ==
    /\ lastOp = "openModal"
    /\ overflowBeforeOpen = "hidden"
    /\ isModalOpen
    /\ modalItem = selected

\* the text of a number held in tenths with exactly one decimal place
OneDecimal(tenths) == NumberText(tenths \div 10, << tenths % 10 >>)

\* C14: right after openModal(item) the modal's poster, title, year, genre
\* and description are the item's, and its rating is the item's rating with
\* exactly one decimal place.
C14_ModalShowsItemRatingOneDecimal ==
    lastOp = "openModal" =>
        /\ modalFields.poster = selected.poster
        /\ modalFields.title = selected.title
        /\ modalFields.year = NumberText(selected.year, << >>)
        /\ modalFields.genre = selected.genre
        /\ modalFields.description = selected.description
        /\ modalFields.rating = OneDecimal(selected.rating)

\* C15: a step that executes searchMovies leaves this.movies as it was, the
\* same items in the same order; it changes nothing but the filtered view
\* and what is rendered.
C15_SearchKeepsCollection ==
    [][ executions' = executions + 1 =>
            /\ movies' = movies
            /\ UNCHANGED << isLoading, modalVars, loadVars >> ]_vars

\* a search has narrowed the filtered view below the collection
C15_Witness ==
    /\ lastOp = "searchMovies"
    /\ Len(filteredMovies) < Len(movies.items)
    /\ movies = loadedData

\* C16, as the claim has it: while a load is in flight and none completes,
\* no step replaces the Loading region by another one.
C16_LoadingHeldWhileInFlight ==
    [][ (pending # {} /\ pending' = pending
           /\ ActiveRegions = {"loadingState"}) =>
            ActiveRegions' = {"loadingState"} ]_vars

\* C16, amended: Loading is entered whenever a load begins, and while a
\* load is in flight and none completes, the only step that replaces Loading
\* is an executed debounced search, which shows Empty or Populated.
C16_LoadingHeldExceptForSearch ==
    /\ [][ attempts' # attempts => ActiveRegions' = {"loadingState"} ]_vars
    /\ [][ (pending # {} /\ pending' = pending
              /\ ActiveRegions = {"loadingState"}
              /\ ActiveRegions' # {"loadingState"}) =>
               /\ executions' = executions + 1
               /\ lastOp' = "searchMovies"
               /\ ActiveRegions' \in {{"noResultsState"}, {"moviesContainer"}}
         ]_vars

\* a debounced search ran while a load was in flight and replaced Loading
C16_Witness ==
    /\ lastOp = "searchMovies"
    /\ pending # {}
    /\ isLoading
    /\ ActiveRegions # {"loadingState"}

\* C17: a load attempt that fails, on any failure path, leaves this.movies
\* and this.filteredMovies as they were.
C17_FailedLoadKeepsData ==
    [][ (lastOp' \in {"loadFailed", "loadNotIterable"} /\ pending' # pending) =>
            UNCHANGED << movies, filteredMovies >> ]_vars

C20_IsLoadingIffInFlight == isLoading <=> pending # {}

=============================================================================
